---------------------------- MODULE Spec2Model ----------------------------
(***************************************************************************)
(* Model of the Google Drive folder-structure replicator                   *)
(* (src/streamlit_app.py): the tree reader get_folder_structure, the tree  *)
(* writer create_folder_structure, the "Replicate" button handler that     *)
(* runs one after the other, and validate_folder_id with the script lines  *)
(* that call it before the handler.                                        *)
(*                                                                         *)
(* A path is a Python str, modelled as a sequence of one-character         *)
(* strings, so that os.path.join, os.path.dirname and str.count(os.sep)    *)
(* are computed character by character as posixpath computes them.  A     *)
(* Drive folder name is any non-empty string and may contain "/".          *)
(***************************************************************************)
EXTENDS Integers, Sequences, FiniteSets, TLC

(***************************************************************************)
(* Bounds of the model.                                                    *)
(***************************************************************************)
MaxNodes == 3      \* folders of the source tree (handler runs, calls of the reader)
MaxFail  == 2      \* remote calls that fail in one behaviour
MaxKeys  == 2      \* keys of a Structure handed directly to the writer
MaxKids  == 1      \* children listed under one such key
ValNodes == 2      \* folders of the source tree (runs of the whole script)
MaxRuns  == 2      \* direct calls of the writer on the same Structure
DeepNodes == 5     \* folders of a deep source tree (calls of the reader)

(***************************************************************************)
(* Strings.                                                                *)
(***************************************************************************)
Sep == "/"                                   \* os.sep (posix)

NameA  == <<"a">>
NameB  == <<"b">>
NameAB == <<"a", "/", "b">>
Names  == {NameA, NameB, NameAB}             \* folder names of the model
PlainNames == {NameA, NameB}                 \* those without a separator

EmptyPath == << >>                           \* the Python str ""

\* x.count(os.sep)
CountSep(x) == Cardinality({i \in DOMAIN x : x[i] = Sep})

\* index of the last separator of p, 0 when there is none: p.rfind('/') + 1
LastSep(p) ==
    IF \E i \in DOMAIN p : p[i] = Sep
    THEN CHOOSE i \in DOMAIN p : p[i] = Sep /\ \A j \in DOMAIN p : p[j] = Sep => j <= i
    ELSE 0

\* s.rstrip('/')
RECURSIVE RStripSep(_)
RStripSep(s) ==
    IF s # << >> /\ s[Len(s)] = Sep THEN RStripSep(SubSeq(s, 1, Len(s) - 1)) ELSE s

\* posixpath.dirname(p)
PosixDirname(p) ==
    LET head == SubSeq(p, 1, LastSep(p))
    IN  IF head # << >> /\ \E i \in DOMAIN head : head[i] # Sep
        THEN RStripSep(head)
        ELSE head

\* posixpath.join(a, b)
PosixJoin(a, b) ==
    IF b # << >> /\ b[1] = Sep THEN b
    ELSE IF a = << >> \/ a[Len(a)] = Sep THEN a \o b
    ELSE a \o <<Sep>> \o b

\* os.path.join(path, folder_name) if path else folder_name
JoinPath(path, folder_name) ==
    IF path # EmptyPath THEN PosixJoin(path, folder_name) ELSE folder_name

\* os.path.dirname(path) if path else ""
ParentPath(path) ==
    IF path # EmptyPath THEN PosixDirname(path) ELSE EmptyPath

(***************************************************************************)
(* The Structure: a Python dict, i.e. a list of (key, children) entries in *)
(* insertion order with distinct keys.                                     *)
(***************************************************************************)
Keys(s) == [i \in DOMAIN s |-> s[i].key]
KeySet(s) == {s[i].key : i \in DOMAIN s}
HasKey(s, k) == \E i \in DOMAIN s : s[i].key = k
KeyIndex(s, k) == CHOOSE i \in DOMAIN s : s[i].key = k
Kids(s, k) == s[KeyIndex(s, k)].kids
InSeq(x, q) == \E i \in DOMAIN q : q[i] = x

\* if path not in structure: structure[path] = [] ; structure[path].append(folder_name)
AddFolder(s, path, folder_name) ==
    IF HasKey(s, path)
    THEN [s EXCEPT ![KeyIndex(s, path)].kids = Append(@, folder_name)]
    ELSE Append(s, [key |-> path, kids |-> <<folder_name>>])

\* sorted(structure.keys(), key=lambda x: x.count(os.sep)) -- a stable sort
RECURSIVE SortedFrom(_, _, _)
SortedFrom(ks, d, maxd) ==
    IF d > maxd THEN << >>
    ELSE SelectSeq(ks, LAMBDA k : CountSep(k) = d) \o SortedFrom(ks, d + 1, maxd)

MaxDepth(ks) ==
    IF ks = << >> THEN 0
    ELSE CHOOSE d \in {CountSep(ks[i]) : i \in DOMAIN ks} :
            \A i \in DOMAIN ks : CountSep(ks[i]) <= d

SortedByDepth(s) == SortedFrom(Keys(s), 0, MaxDepth(Keys(s)))


(***************************************************************************)
(* The source Drive tree: folders 1..n, folder 1 is the source root, every *)
(* other folder has one parent; files().list returns the subfolders of a   *)
(* folder in increasing number.                                            *)
(***************************************************************************)
ParentFns(n) ==
    {p \in [1..n -> 0..(n - 1)] : p[1] = 0 /\ \A i \in 2..n : p[i] >= 1 /\ p[i] < i}

TreesOf(n) ==
    {[n |-> n, parent |-> p, name |-> nm] : p \in ParentFns(n), nm \in [1..n -> Names]}

Trees == UNION {TreesOf(n) : n \in 1..MaxNodes}

\* trees of DeepNodes folders, each the child of the root or of the folder listed before it
DeepTrees ==
    {t \in TreesOf(DeepNodes) : \A i \in 2..DeepNodes : t.parent[i] \in {1, i - 1}}

NoTree == [n |-> 0, parent |-> << >>, name |-> << >>]

\* results.get('files', []) of the listing of folder x
ChildrenOf(t, x) == SelectSeq([i \in 1..t.n |-> i], LAMBDA i : t.parent[i] = x)

(***************************************************************************)
(* Structures handed directly to create_folder_structure: any dict of at   *)
(* most MaxKeys keys, in any order, whose keys are paths of at most two    *)
(* names and whose values list at most MaxKids names.                      *)
(***************************************************************************)
WKeys == {EmptyPath} \cup Names \cup {PosixJoin(n, m) : n \in Names, m \in Names}

KidLists == UNION {[1..k -> Names] : k \in 0..MaxKids}

WEntries == {[key |-> k, kids |-> c] : k \in WKeys, c \in KidLists}

WStructures ==
    UNION {{s \in [1..k -> WEntries] :
               \A i \in 1..k : \A j \in 1..k : s[i].key = s[j].key => i = j}
           : k \in 0..MaxKeys}

DestRoot == 0                                \* destination_folder_id

None == "None"
DriveIds == {"d1"}                           \* ids of shared drives

(***************************************************************************)
(* State.                                                                  *)
(***************************************************************************)
VARIABLES
    caller,              \* "handler": the button handler; "direct": a direct call of the writer
    tree,                \* the source Drive tree
    is_shared_drive,     \* use_shared_drive
    has_callback,        \* progress_callback is not None
    source_drive_id,     \* script variable of line 377, the reader's drive_id
    dest_drive_id,       \* script variable of line 378, the writer's dest_drive_id
    validations,         \* validate_folder_id calls made, in order
    pc,                  \* position of the run
    source_folder_name,  \* root name handed to the writer
    structure,           \* the Structure dict
    stack,               \* call stack of get_folder_structure
    reads,               \* files().get and files().list calls issued, in order
    folder_id_map,       \* the FolderIdMap dict of the current writer call
    paths,               \* sorted keys
    pidx,                \* position of "for path in paths"
    cidx,                \* position of "for folder_name in structure[path]"
    parent_id,           \* parent_id of the current path
    calls,               \* files().create calls issued, in order
    next_id,             \* next fresh Drive id
    log,                 \* messages sent to progress_callback, in order
    fails,               \* remote calls that failed so far
    runs,                \* number of the current writer call
    prior_map            \* FolderIdMap returned by the previous writer call

vars == <<caller, tree, is_shared_drive, has_callback, source_drive_id, dest_drive_id,
          validations, pc, source_folder_name,
          structure, stack, reads, folder_id_map, paths, pidx, cidx, parent_id, calls,
          next_id, log, fails, runs, prior_map>>

scriptVars == <<source_drive_id, dest_drive_id, validations>>
inputVars == <<caller, tree, is_shared_drive, has_callback, scriptVars>>
readerVars == <<structure, stack, reads>>
writerVars == <<folder_id_map, paths, pidx, cidx, parent_id, calls, next_id, runs, prior_map>>

EmptyMap == [p \in {} |-> 0]

\* a sink that is never called
Unreported(msg) == log

\* progress_callback(msg) under "if progress_callback:"
Report(msg) == IF has_callback THEN Append(log, msg) ELSE log

CanFail == fails < MaxFail

InitCommon ==
    /\ validations = << >>
    /\ reads = << >>
    /\ folder_id_map = EmptyMap
    /\ paths = << >>
    /\ pidx = 0
    /\ cidx = 0
    /\ parent_id = DestRoot
    /\ calls = << >>
    /\ next_id = 1
    /\ log = << >>
    /\ fails = 0
    /\ runs = 0
    /\ prior_map = EmptyMap

\* the button handler is about to run on some source tree
Init ==
    /\ caller = "handler"
    /\ tree \in Trees
    /\ is_shared_drive \in BOOLEAN
    /\ has_callback = TRUE
    /\ source_drive_id \in DriveIds \cup {None}
    /\ dest_drive_id = None
    /\ pc = "idle"
    /\ source_folder_name = EmptyPath
    /\ structure = << >>
    /\ stack = << >>
    /\ InitCommon

\* create_folder_structure is about to be called directly on some Structure
InitW ==
    /\ caller = "direct"
    /\ tree = NoTree
    /\ is_shared_drive = FALSE
    /\ has_callback \in BOOLEAN
    /\ source_drive_id = None
    /\ dest_drive_id \in DriveIds \cup {None}
    /\ pc = "read_done"
    /\ source_folder_name \in Names
    /\ structure \in WStructures
    /\ stack = << >>
    /\ InitCommon


(***************************************************************************)
(* The button handler, first part: fetch the source folder's name and call *)
(* the reader (lines 427-452).  A failed fetch is caught at line 484.      *)
(***************************************************************************)
Frame(fid, path) ==
    [fid |-> fid, path |-> path, stage |-> "meta", cur |-> EmptyPath, items |-> << >>, i |-> 1]

\* one remote read: op is "get_name" (line 441), "get" (line 124) or "list" (lines 153, 160)
Read(op, fid, params, ok, why) ==
    [op |-> op, fid |-> fid, params |-> params, ok |-> ok, why |-> why]

\* params of files().get (lines 120-122 and 437-439)
GetParams == IF is_shared_drive THEN {"fileId", "fields", "supportsAllDrives"}
                                ELSE {"fileId", "fields"}

\* the reader's drive_id: source_drive_id for the handler (line 450), and
\* handed down unchanged by every recursive call (line 174)
drive_id == source_drive_id

\* list_params of the first files().list (lines 135-147)
ListParams ==
    IF is_shared_drive
    THEN {"q", "fields", "supportsAllDrives", "includeItemsFromAllDrives"}
         \cup (IF drive_id # None THEN {"driveId", "corpora"} ELSE {})
    ELSE {"q", "fields"}

\* list_params of the second files().list (lines 157-159)
LegacyParams == (ListParams \ {"includeItemsFromAllDrives"}) \cup {"includeTeamDriveItems"}

HandlerStart ==
    /\ caller = "handler"
    /\ pc = "idle"
    /\ \/ /\ source_folder_name' = tree.name[1]
          /\ stack' = <<Frame(1, EmptyPath)>>
          /\ reads' = Append(reads, Read("get_name", 1, GetParams, TRUE, "none"))
          /\ pc' = "reading"
          /\ log' = Append(log, [kind |-> "status_reading"])
          /\ fails' = fails
       \/ /\ CanFail
          /\ fails' = fails + 1
          /\ reads' = Append(reads, Read("get_name", 1, GetParams, FALSE, "other"))
          /\ pc' = "failed"
          /\ log' = Append(log, [kind |-> "run_error"])
          /\ UNCHANGED <<source_folder_name, stack>>
    /\ UNCHANGED <<inputVars, structure, writerVars>>

(***************************************************************************)
(* get_folder_structure (lines 113-180).  The recursion is the stack; the  *)
(* top frame is the running call.  An exception anywhere in a call is      *)
(* caught by that call's own handler (lines 176-178), which reports it and *)
(* returns.                                                                *)
(***************************************************************************)
Top == stack[Len(stack)]
Pop == SubSeq(stack, 1, Len(stack) - 1)
SetTop(f) == [stack EXCEPT ![Len(stack)] = f]

ReadErrorMsg(f) == [kind |-> "read_error", path |-> f.path, fid |-> f.fid]

\* a reader whose calls give up the whole traversal on leaving
ReaderAbort(st) ==
    /\ stack' = << >>
    /\ pc' = "read_done"

\* the call returns: back in the caller's loop, or out of the reader
ReaderLeave(st) ==
    /\ stack' = st
    /\ pc' = IF st = << >> THEN "read_done" ELSE "reading"

\* lines 119-131: files().get, then record the folder under its parent's path
ReadMeta ==
    /\ pc = "reading"
    /\ Top.stage = "meta"
    /\ \/ LET folder_name  == tree.name[Top.fid]
              current_path == JoinPath(Top.path, folder_name)
          IN  /\ structure' = AddFolder(structure, Top.path, folder_name)
              /\ stack' = SetTop([Top EXCEPT !.stage = "list", !.cur = current_path])
              /\ reads' = Append(reads, Read("get", Top.fid, GetParams, TRUE, "none"))
              /\ UNCHANGED <<pc, log, fails>>
       \/ /\ CanFail
          /\ fails' = fails + 1
          /\ reads' = Append(reads, Read("get", Top.fid, GetParams, FALSE, "other"))
          /\ log' = Report(ReadErrorMsg(Top))
          /\ ReaderLeave(Pop)
          /\ UNCHANGED structure
    /\ UNCHANGED <<inputVars, source_folder_name, writerVars>>

\* str(e) of a failed listing contains 'includeItemsFromAllDrives' (line 156):
\* "param" is a rejection of that parameter, "named" a failure of any other
\* cause whose text names it (the text of an HTTP error carries the request's
\* query string, so this takes the parameter to have been sent)
Mentions(why) == why \in {"param", "named"}

\* lines 133-168: files().list with the current parameter set
ReadList ==
    /\ pc = "reading"
    /\ Top.stage = "list"
    /\ \/ /\ stack' = SetTop([Top EXCEPT !.stage = "loop",
                                         !.items = ChildrenOf(tree, Top.fid), !.i = 1])
          /\ reads' = Append(reads, Read("list", Top.fid, ListParams, TRUE, "none"))
          /\ log' = Report([kind |-> "reading", path |-> Top.cur])
          /\ UNCHANGED <<pc, fails>>
       \/ /\ CanFail
          /\ fails' = fails + 1
          /\ \E why \in {"param", "named", "other"} :
                /\ Mentions(why) => "includeItemsFromAllDrives" \in ListParams
                /\ reads' = Append(reads, Read("list", Top.fid, ListParams, FALSE, why))
                /\ IF Mentions(why)
                   THEN \* lines 156-160: go on to the second attempt
                        /\ stack' = SetTop([Top EXCEPT !.stage = "retry"])
                        /\ UNCHANGED <<pc, log>>
                   ELSE \* line 162: raised again, caught at line 176
                        /\ log' = Report(ReadErrorMsg(Top))
                        /\ ReaderLeave(Pop)
    /\ UNCHANGED <<inputVars, source_folder_name, structure, writerVars>>

\* lines 157-168: the second files().list, with includeTeamDriveItems
ReadRetry ==
    /\ pc = "reading"
    /\ Top.stage = "retry"
    /\ \/ /\ stack' = SetTop([Top EXCEPT !.stage = "loop",
                                         !.items = ChildrenOf(tree, Top.fid), !.i = 1])
          /\ reads' = Append(reads, Read("list", Top.fid, LegacyParams, TRUE, "none"))
          /\ log' = Report([kind |-> "reading", path |-> Top.cur])
          /\ UNCHANGED <<pc, fails>>
       \/ /\ CanFail
          /\ fails' = fails + 1
          /\ reads' = Append(reads, Read("list", Top.fid, LegacyParams, FALSE, "other"))
          /\ log' = Report(ReadErrorMsg(Top))
          /\ ReaderLeave(Pop)
    /\ UNCHANGED <<inputVars, source_folder_name, structure, writerVars>>

\* lines 171-174: the recursive call for the next listed subfolder
ReadRecurse ==
    /\ pc = "reading"
    /\ Top.stage = "loop"
    /\ Top.i <= Len(Top.items)
    /\ stack' = Append(SetTop([Top EXCEPT !.i = @ + 1]), Frame(Top.items[Top.i], Top.cur))
    /\ UNCHANGED <<inputVars, pc, source_folder_name, structure, reads, writerVars, log, fails>>

\* line 180: return structure
ReadReturn ==
    /\ pc = "reading"
    /\ Top.stage = "loop"
    /\ Top.i > Len(Top.items)
    /\ ReaderLeave(Pop)
    /\ UNCHANGED <<inputVars, source_folder_name, structure, reads, writerVars, log, fails>>


(***************************************************************************)
(* create_folder_structure (lines 182-257).                                *)
(***************************************************************************)
MapPut(m, k, v) == [x \in DOMAIN m \cup {k} |-> IF x = k THEN v ELSE m[x]]

\* folder_id_map.get(parent_path, destination_folder_id)
MapGet(m, k, default) == IF k \in DOMAIN m THEN m[k] ELSE default

\* "" in structure and source_folder_name in structure[""]
RootListed(s, root) == HasKey(s, EmptyPath) /\ InSeq(root, Kids(s, EmptyPath))

\* lines 184-189: the seeded map
SeedMap(s, root) ==
    IF RootListed(s, root)
    THEN MapPut(MapPut(EmptyMap, EmptyPath, DestRoot), root, DestRoot)
    ELSE MapPut(EmptyMap, EmptyPath, DestRoot)

\* a handler that calls the writer while the reader is still at work
ReaderStarted == pc \in {"reading", "read_done"}

\* the call of the reader has returned (lines 446-452 come before line 471)
ReaderFinished == pc = "read_done"

\* lines 184-200 (called from line 471 by the handler)
WriterStart ==
    /\ ReaderFinished
    /\ folder_id_map' = SeedMap(structure, source_folder_name)
    /\ paths' = SortedByDepth(structure)
    /\ pidx' = 1
    /\ cidx' = 0
    /\ parent_id' = DestRoot
    /\ runs' = runs + 1
    /\ log' = IF has_callback
              THEN log \o <<[kind |-> "found", count |-> Len(structure)]>>
                       \o [i \in DOMAIN structure |->
                              [kind |-> "path_entry", path |-> structure[i].key,
                               kids |-> structure[i].kids]]
                       \o <<[kind |-> "order", paths |-> SortedByDepth(structure)]>>
              ELSE log
    /\ pc' = "w_path"
    /\ UNCHANGED <<inputVars, source_folder_name, readerVars, calls, next_id, fails, prior_map>>

CurPath == paths[pidx]
CurKids == Kids(structure, CurPath)

\* lines 203-220: the head of one iteration of "for path in paths"
WriterPath ==
    /\ pc = "w_path"
    /\ pidx <= Len(paths)
    /\ LET path        == CurPath
           parent_path == ParentPath(path)
       IN  IF path = EmptyPath /\ InSeq(source_folder_name, Kids(structure, path))
           THEN \* line 206: continue
                /\ pidx' = pidx + 1
                /\ UNCHANGED <<pc, cidx, parent_id, log>>
           ELSE IF parent_path \notin DOMAIN folder_id_map /\ path # EmptyPath
           THEN \* line 217 calls progress_callback without testing it
                IF has_callback
                THEN /\ log' = Append(Append(log, [kind |-> "for_path", path |-> path]),
                                      [kind |-> "warning", path |-> path, parent |-> parent_path])
                     /\ pidx' = pidx + 1
                     /\ UNCHANGED <<pc, cidx, parent_id>>
                ELSE /\ pc' = "crashed"
                     /\ UNCHANGED <<pidx, cidx, parent_id, log>>
           ELSE /\ parent_id' = MapGet(folder_id_map, parent_path, DestRoot)
                /\ log' = Report([kind |-> "for_path", path |-> path])
                /\ IF CurKids = << >>
                   THEN /\ pidx' = pidx + 1
                        /\ UNCHANGED <<pc, cidx>>
                   ELSE /\ pc' = "w_child"
                        /\ cidx' = 1
                        /\ pidx' = pidx
    /\ UNCHANGED <<inputVars, source_folder_name, readerVars, folder_id_map, paths,
                   calls, next_id, fails, runs, prior_map>>

\* the end of one iteration of "for folder_name in structure[path]"
NextChild ==
    IF cidx < Len(CurKids)
    THEN /\ cidx' = cidx + 1
         /\ UNCHANGED <<pc, pidx>>
    ELSE /\ cidx' = 0
         /\ pidx' = pidx + 1
         /\ pc' = "w_path"

Call(path, folder_name, parent, ok, id) ==
    [key |-> path, name |-> folder_name, new_path |-> JoinPath(path, folder_name),
     parent |-> parent, ok |-> ok, id |-> id, run |-> runs]

\* lines 223-255: one iteration of "for folder_name in structure[path]"
WriterChild ==
    /\ pc = "w_child"
    /\ LET path        == CurPath
           folder_name == CurKids[cidx]
           new_path    == JoinPath(path, folder_name)
       IN  IF path = EmptyPath /\ folder_name = source_folder_name
           THEN \* line 226: continue
                /\ UNCHANGED <<folder_id_map, calls, next_id, log, fails>>
           ELSE \/ \* lines 241-252: files().create succeeded
                   /\ folder_id_map' = MapPut(folder_id_map, new_path, next_id)
                   /\ calls' = Append(calls, Call(path, folder_name, parent_id, TRUE, next_id))
                   /\ next_id' = next_id + 1
                   /\ log' = Report([kind |-> "created", path |-> new_path, id |-> next_id])
                   /\ UNCHANGED fails
                \/ \* lines 253-255: files().create raised
                   /\ CanFail
                   /\ fails' = fails + 1
                   /\ calls' = Append(calls, Call(path, folder_name, parent_id, FALSE, 0))
                   /\ log' = Report([kind |-> "create_error", path |-> path, name |-> folder_name])
                   /\ UNCHANGED <<folder_id_map, next_id>>
    /\ NextChild
    /\ UNCHANGED <<inputVars, source_folder_name, readerVars, paths, parent_id, runs, prior_map>>

\* line 257: return folder_id_map
WriterReturn ==
    /\ pc = "w_path"
    /\ pidx > Len(paths)
    /\ pc' = "returned"
    /\ UNCHANGED <<inputVars, source_folder_name, readerVars, writerVars, log, fails>>

\* lines 481-482: the handler's completion step
HandlerDone ==
    /\ caller = "handler"
    /\ pc = "returned"
    /\ pc' = "completed"
    /\ log' = Append(log, [kind |-> "status_completed"])
    /\ UNCHANGED <<inputVars, source_folder_name, readerVars, writerVars, fails>>

\* the direct caller runs the writer again on the same Structure and destination
Rerun ==
    /\ caller = "direct"
    /\ pc = "returned"
    /\ runs < MaxRuns
    /\ prior_map' = folder_id_map
    /\ pc' = "read_done"
    /\ UNCHANGED <<inputVars, source_folder_name, readerVars, folder_id_map, paths, pidx,
                   cidx, parent_id, calls, next_id, runs, log, fails>>

\* get_folder_structure is about to be called directly on the root of some source tree
InitR ==
    /\ caller = "reader"
    /\ tree \in DeepTrees
    /\ is_shared_drive \in BOOLEAN
    /\ has_callback \in BOOLEAN
    /\ source_drive_id = None
    /\ dest_drive_id = None
    /\ pc = "reading"
    /\ source_folder_name = EmptyPath
    /\ structure = << >>
    /\ stack = <<Frame(1, EmptyPath)>>
    /\ InitCommon

(***************************************************************************)
(* validate_folder_id (lines 259-274) and the script's use of it (lines    *)
(* 377-425).  fetched is the outcome of files().get: ok is FALSE when the  *)
(* call raised; driveId is None when the response has no such key.         *)
(***************************************************************************)
FolderMime == "application/vnd.google-apps.folder"
OtherMime == "application/pdf"

NotAFolderMsg == <<"The provided ID is not a folder">>
ErrorAccessingMsg == <<"Error accessing folder">>

Raised == [ok |-> FALSE, mimeType |-> None, name |-> EmptyPath, driveId |-> None]

Fetched(mimeType, name, driveId) ==
    [ok |-> TRUE, mimeType |-> mimeType, name |-> name, driveId |-> driveId]

\* a validator that takes any item for a folder
validate_any_item(fetched) ==
    IF fetched.ok THEN <<TRUE, fetched.name, fetched.driveId>>
                  ELSE <<FALSE, ErrorAccessingMsg, None>>

\* the returned tuple (valid, name or message, drive_id)
validate_folder_id(fetched) ==
    IF ~fetched.ok THEN <<FALSE, ErrorAccessingMsg, None>>
    ELSE IF fetched.mimeType # FolderMime THEN <<FALSE, NotAFolderMsg, None>>
    ELSE <<TRUE, fetched.name, fetched.driveId>>

Validation(which, fetched) ==
    [which |-> which, fetched |-> fetched, result |-> validate_folder_id(fetched)]

\* what files().get can answer for the source id: the root of the tree, or a
\* file of that name when the tree has no other folder
SourceFetches ==
    {Raised} \cup {Fetched(m, tree.name[1], d) :
                      m \in (IF tree.n = 1 THEN {FolderMime, OtherMime} ELSE {FolderMime}),
                      d \in DriveIds \cup {None}}

DestFetches ==
    {Raised} \cup {Fetched(m, NameB, d) : m \in {FolderMime, OtherMime}, d \in DriveIds \cup {None}}

\* lines 381-396
ValidateSource ==
    /\ pc = "v_source"
    /\ \E fetched \in SourceFetches :
          LET v == Validation("source", fetched)
          IN  /\ validations' = Append(validations, v)
              /\ source_drive_id' = IF v.result[1] /\ v.result[3] # None
                                    THEN v.result[3] ELSE source_drive_id
    /\ pc' = "v_dest"
    /\ UNCHANGED <<caller, tree, is_shared_drive, has_callback, dest_drive_id,
                   source_folder_name, readerVars, writerVars, log, fails>>

\* lines 399-414
ValidateDest ==
    /\ pc = "v_dest"
    /\ \E fetched \in DestFetches :
          LET v == Validation("destination", fetched)
          IN  /\ validations' = Append(validations, v)
              /\ dest_drive_id' = IF v.result[1] /\ v.result[3] # None
                                  THEN v.result[3] ELSE dest_drive_id
    /\ pc' = "v_manual"
    /\ UNCHANGED <<caller, tree, is_shared_drive, has_callback, source_drive_id,
                   source_folder_name, readerVars, writerVars, log, fails>>

\* lines 417-425: the manual entries, empty unless typed in debug mode
ManualOverride ==
    /\ pc = "v_manual"
    /\ \E manual_source_drive_id \in {None, "manual"} :
          source_drive_id' = IF manual_source_drive_id # None
                             THEN manual_source_drive_id ELSE source_drive_id
    /\ \E manual_dest_drive_id \in {None, "manual"} :
          dest_drive_id' = IF manual_dest_drive_id # None
                           THEN manual_dest_drive_id ELSE dest_drive_id
    /\ pc' = "idle"
    /\ UNCHANGED <<caller, tree, is_shared_drive, has_callback, validations,
                   source_folder_name, readerVars, writerVars, log, fails>>

\* source trees of whole script runs
ScriptTrees ==
    {t \in UNION {TreesOf(n) : n \in 1..ValNodes} : \A i \in 1..t.n : t.name[i] \in PlainNames}

\* the script starts a run with both ids entered (lines 377-378)
InitV ==
    /\ caller = "handler"
    /\ tree \in ScriptTrees
    /\ is_shared_drive \in BOOLEAN
    /\ has_callback = TRUE
    /\ source_drive_id = None
    /\ dest_drive_id = None
    /\ pc = "v_source"
    /\ source_folder_name = EmptyPath
    /\ structure = << >>
    /\ stack = << >>
    /\ InitCommon

\* the same call on the root of a source tree of at most MaxNodes folders
InitReader ==
    /\ caller = "reader"
    /\ tree \in Trees
    /\ is_shared_drive \in BOOLEAN
    /\ has_callback \in BOOLEAN
    /\ source_drive_id \in DriveIds \cup {None}
    /\ dest_drive_id = None
    /\ pc = "reading"
    /\ source_folder_name = EmptyPath
    /\ structure = << >>
    /\ stack = <<Frame(1, EmptyPath)>>
    /\ InitCommon

\* the same callers on names without a separator
PlainKeys ==
    {EmptyPath} \cup PlainNames \cup {PosixJoin(n, m) : n \in PlainNames, m \in PlainNames}

InitPlain ==
    /\ Init
    /\ \A i \in 1..tree.n : tree.name[i] \in PlainNames

InitWPlain ==
    /\ InitW
    /\ source_folder_name \in PlainNames
    /\ \A i \in DOMAIN structure :
          /\ structure[i].key \in PlainKeys
          /\ \A j \in DOMAIN structure[i].kids : structure[i].kids[j] \in PlainNames

Reader == ReadMeta \/ ReadList \/ ReadRetry \/ ReadRecurse \/ ReadReturn
Writer == WriterStart \/ WriterPath \/ WriterChild \/ WriterReturn

Next ==
    \/ HandlerStart
    \/ ReadMeta
    \/ ReadList
    \/ ReadRetry
    \/ ReadRecurse
    \/ ReadReturn
    \/ WriterStart
    \/ WriterPath
    \/ WriterChild
    \/ WriterReturn
    \/ HandlerDone

NextV ==
    \/ ValidateSource
    \/ ValidateDest
    \/ ManualOverride
    \/ HandlerStart
    \/ ReadMeta
    \/ ReadList
    \/ ReadRetry
    \/ ReadRecurse
    \/ ReadReturn

NextW ==
    \/ WriterStart
    \/ WriterPath
    \/ WriterChild
    \/ WriterReturn
    \/ Rerun

Spec == Init /\ [][Next]_vars
SpecW == InitW /\ [][NextW]_vars
SpecR == InitR /\ [][Reader]_vars
SpecReader == InitReader /\ [][Reader]_vars
SpecV == InitV /\ [][NextV]_vars

\* the handler's run is one sequential script run: every step that can be
\* taken is taken
SpecLive == Init /\ [][Next]_vars /\ WF_vars(Next)
SpecPlain == InitPlain /\ [][Next]_vars
SpecWPlain == InitWPlain /\ [][NextW]_vars

TypeOK ==
    /\ pc \in {"v_source", "v_dest", "v_manual", "idle", "reading", "read_done", "w_path", "w_child", "returned",
               "completed", "failed", "crashed"}
    /\ fails \in 0..MaxFail
    /\ \A p \in DOMAIN folder_id_map : folder_id_map[p] \in 0..(next_id - 1)


(***************************************************************************)
(* Vocabulary of the properties.                                           *)
(***************************************************************************)
Returned == pc \in {"returned", "completed"}

\* the creation calls of the current writer call
RunCalls == {i \in DOMAIN calls : calls[i].run = runs}

\* no two subfolders of one folder carry the same name
DistinctSiblings(t) ==
    \A i \in 1..t.n : \A j \in 1..t.n :
        (i # j /\ t.parent[i] = t.parent[j]) => t.name[i] # t.name[j]

\* the relative path of folder x: the names from the root down to x, joined by the separator
RECURSIVE RelPath(_, _)
RelPath(t, x) ==
    IF x = 1 THEN t.name[1] ELSE RelPath(t, t.parent[x]) \o <<Sep>> \o t.name[x]

\* the names of the subfolders of x, in listing order
ChildNames(t, x) == [j \in DOMAIN ChildrenOf(t, x) |-> t.name[ChildrenOf(t, x)[j]]]

\* every full path join(path, child) of a Structure
FullPaths(s) ==
    UNION {{JoinPath(s[i].key, s[i].kids[j]) : j \in DOMAIN s[i].kids} : i \in DOMAIN s}


(***************************************************************************)
(* C1.  Nesting is reproduced at every depth: in a failure-free run of the *)
(* writer over a reader-produced Structure, every creation call issued for *)
(* a child listed under the Structure key "path" uses as its parent id the *)
(* FolderIdMap entry of that key, so that every destination folder is a    *)
(* direct child of the destination folder of its source parent.            *)
(***************************************************************************)
C1_NestingReproduced ==
    fails = 0 =>
        \A i \in RunCalls :
            calls[i].key \in DOMAIN folder_id_map
                => calls[i].parent = folder_id_map[calls[i].key]

(***************************************************************************)
(* C2.  Depth ordering: for any Structure and root name, whenever within   *)
(* one writer call an entry is created for a full path P and one is        *)
(* created for P's parent path, the parent's creation comes first.         *)
(***************************************************************************)
C2_ParentCreatedFirst ==
    \A i \in RunCalls : \A j \in RunCalls :
        (calls[i].ok /\ calls[j].ok /\ calls[j].new_path = ParentPath(calls[i].new_path))
            => j < i

(***************************************************************************)
(* C3.  Root aliasing: whenever the root's name is listed under the empty  *)
(* path, no creation call is issued for the root's path, and the returned  *)
(* FolderIdMap maps both the root's name and the empty path to the         *)
(* destination root id, with or without creation failures.                 *)
(***************************************************************************)
C3_RootAliased ==
    (runs >= 1 /\ RootListed(structure, source_folder_name)) =>
        /\ \A i \in RunCalls : calls[i].new_path # source_folder_name
        /\ Returned =>
              /\ {EmptyPath, source_folder_name} \subseteq DOMAIN folder_id_map
              /\ folder_id_map[EmptyPath] = DestRoot
              /\ folder_id_map[source_folder_name] = DestRoot

(***************************************************************************)
(* C4.  No orphan creation: a creation call for a child listed under a     *)
(* path is issued only if that path (the parent path of the new folder)    *)
(* has an entry in FolderIdMap at that moment; after the creation of a     *)
(* folder fails none of its descendants is created.                        *)
(***************************************************************************)
ParentPresentAtCall ==
    Len(calls') > Len(calls) => calls'[Len(calls')].key \in DOMAIN folder_id_map

C4_NoOrphanCreation == [][ParentPresentAtCall]_vars

(***************************************************************************)
(* C5.  FolderIdMap is first-write-wins: during a writer call every entry  *)
(* of the map stays in the map with the id it was first given.             *)
(***************************************************************************)
EntriesKept ==
    pc \in {"w_path", "w_child"} =>
        \A p \in DOMAIN folder_id_map :
            p \in DOMAIN folder_id_map' /\ folder_id_map'[p] = folder_id_map[p]

C5_FirstWriteWins == [][EntriesKept]_vars

(***************************************************************************)
(* C6.  Idempotent re-entry: a later writer call on the same Structure and *)
(* destination issues no creation call for a path that the FolderIdMap of  *)
(* the previous call already holds.                                        *)
(***************************************************************************)
C6_RerunSkipsPresent ==
    runs >= 2 => \A i \in RunCalls : calls[i].new_path \notin DOMAIN prior_map

(***************************************************************************)
(* C7.  Partial-failure containment: a failed creation call does not stop  *)
(* the writer (the writer never aborts at a key because the folder whose   *)
(* creation failed is missing from FolderIdMap), and when the writer has   *)
(* returned every sibling of the failed folder has had its creation call   *)
(* attempted.                                                              *)
(***************************************************************************)
C7_FailureContained ==
    \A i \in RunCalls :
        ~calls[i].ok =>
            /\ ~(pc = "crashed" /\ ParentPath(CurPath) = calls[i].new_path)
            /\ pc = "returned" =>
                  \A k \in DOMAIN Kids(structure, calls[i].key) :
                      \/ /\ calls[i].key = EmptyPath
                         /\ Kids(structure, calls[i].key)[k] = source_folder_name
                      \/ \E j \in RunCalls :
                            /\ calls[j].key = calls[i].key
                            /\ calls[j].name = Kids(structure, calls[i].key)[k]

(***************************************************************************)
(* C8.  A key whose parent path has no entry in FolderIdMap when it is     *)
(* processed is skipped and the writer goes on with the next key, in every *)
(* caller configuration: it creates nothing, changes no entry and does not *)
(* crash.                                                                  *)
(***************************************************************************)
MissingParent ==
    /\ pc = "w_path"
    /\ pidx <= Len(paths)
    /\ CurPath # EmptyPath
    /\ ParentPath(CurPath) \notin DOMAIN folder_id_map

SkippedAndContinued ==
    MissingParent =>
        /\ pc' = "w_path"
        /\ pidx' = pidx + 1
        /\ calls' = calls
        /\ folder_id_map' = folder_id_map

C8_MissingParentSkipped == [][SkippedAndContinued]_vars

(***************************************************************************)
(* C9.  Writer result on a failure-free run over a reader-produced         *)
(* Structure with distinct sibling names: the returned FolderIdMap has     *)
(* exactly the keys "", rootName and every full path of the Structure; ""  *)
(* and rootName map to the destination root id; every other key maps to    *)
(* the id returned by its own creation call, and exactly one creation call *)
(* is issued per non-root full path.                                       *)
(***************************************************************************)
C9_WriterResult ==
    (Returned /\ fails = 0 /\ DistinctSiblings(tree)) =>
        LET created == FullPaths(structure) \ {source_folder_name}
        IN  /\ DOMAIN folder_id_map = {EmptyPath, source_folder_name} \cup FullPaths(structure)
            /\ folder_id_map[EmptyPath] = DestRoot
            /\ folder_id_map[source_folder_name] = DestRoot
            /\ \A p \in created :
                  /\ Cardinality({i \in DOMAIN calls : calls[i].new_path = p}) = 1
                  /\ \E i \in DOMAIN calls :
                        /\ calls[i].new_path = p
                        /\ calls[i].ok
                        /\ calls[i].id = folder_id_map[p]
            /\ Len(calls) = Cardinality(created)

(***************************************************************************)
(* C10.  Reader result on a failure-free traversal of a tree with distinct *)
(* sibling names: Structure[""] is exactly [rootName]; for every folder at *)
(* relative path P with at least one subfolder, Structure[P] is exactly    *)
(* the sequence of its subfolder names in listing order; the path of a     *)
(* folder with no subfolder is never a key.                                *)
(***************************************************************************)
C10_ReaderResult ==
    (pc = "read_done" /\ fails = 0 /\ DistinctSiblings(tree)) =>
        /\ HasKey(structure, EmptyPath)
        /\ Kids(structure, EmptyPath) = <<tree.name[1]>>
        /\ \A x \in 1..tree.n :
              IF ChildrenOf(tree, x) # << >>
              THEN /\ HasKey(structure, RelPath(tree, x))
                   /\ Kids(structure, RelPath(tree, x)) = ChildNames(tree, x)
              ELSE ~HasKey(structure, RelPath(tree, x))


(***************************************************************************)
(* Vocabulary of the reader's properties.                                  *)
(***************************************************************************)
\* folders whose files().get failed
GetFailed == {reads[k].fid : k \in {j \in DOMAIN reads : reads[j].op = "get" /\ ~reads[j].ok}}

\* folders that were listed and whose listing succeeded at some attempt
Listed == {reads[k].fid : k \in {j \in DOMAIN reads : reads[j].op = "list" /\ reads[j].ok}}

\* folders whose listing was given up
ListFailed ==
    {reads[k].fid : k \in {j \in DOMAIN reads : reads[j].op = "list" /\ ~reads[j].ok}} \ Listed

\* the Structure of a failure-free traversal of t from folder x under path, in
\* which the folders of noGet are absent and those of noList have no subfolder
RECURSIVE Walk(_, _, _, _, _, _)
RECURSIVE WalkKids(_, _, _, _, _, _, _)
Walk(t, x, path, s, noGet, noList) ==
    IF x \in noGet THEN s
    ELSE LET s1 == AddFolder(s, path, t.name[x])
         IN  IF x \in noList THEN s1
             ELSE WalkKids(t, ChildrenOf(t, x), 1, JoinPath(path, t.name[x]), s1, noGet, noList)

WalkKids(t, kids, i, cur, s, noGet, noList) ==
    IF i > Len(kids) THEN s
    ELSE WalkKids(t, kids, i + 1, cur, Walk(t, kids[i], cur, s, noGet, noList), noGet, noList)

\* the folders whose call ended in the handler of line 176, in order
FailedNodes ==
    LET idx == SelectSeq([j \in 1..Len(reads) |-> j],
                         LAMBDA j : /\ reads[j].op \in {"get", "list"}
                                    /\ ~reads[j].ok
                                    /\ reads[j].fid \in GetFailed \cup ListFailed
                                    /\ \A k \in (j + 1)..Len(reads) : reads[k].fid # reads[j].fid)
    IN  [j \in 1..Len(idx) |-> reads[idx[j]].fid]

\* the folders named by the read errors sent to the sink, in order
ReportedNodes ==
    LET errs == SelectSeq(log, LAMBDA m : m.kind = "read_error")
    IN  [j \in 1..Len(errs) |-> errs[j].fid]

ReaderDone == caller = "reader" /\ pc = "read_done"

\* the returned Structure is that of a failure-free run on the tree without
\* the subtrees of the failed folders
PartialAsFailureFree ==
    ReaderDone => structure = Walk(tree, 1, EmptyPath, << >>, GetFailed, ListFailed)

(***************************************************************************)
(* C11.  Reader failure containment: when the metadata fetch or the child  *)
(* listing fails for a node N, get_folder_structure does not abort; it     *)
(* reports the failure for N, records nothing of N's subtree beyond (at    *)
(* most) N's own name, still traverses and records every sibling of N and  *)
(* every other subtree exactly as a failure-free run does, and returns the *)
(* partial Structure.  As stated: one report per failed node, whoever      *)
(* calls.                                                                  *)
(***************************************************************************)
C11_ReaderContainment ==
    /\ PartialAsFailureFree
    /\ ReaderDone => ReportedNodes = FailedNodes

(***************************************************************************)
(* C11, amended: the same, the report being sent when a progress sink is   *)
(* supplied; without one the failure of N is not reported anywhere.        *)
(***************************************************************************)
C11_ReaderContainmentWithSink ==
    /\ PartialAsFailureFree
    /\ ReaderDone => ReportedNodes = (IF has_callback THEN FailedNodes ELSE << >>)

\* a metadata fetch failed under the root, a sibling of the failed folder was
\* recorded after it, and the failure was reported
C11_Witness ==
    /\ ReaderDone
    /\ has_callback
    /\ \E n \in GetFailed : \E m \in 2..tree.n :
          /\ n < m
          /\ tree.parent[n] = tree.parent[m]
          /\ m \in Listed
          /\ InSeq(tree.name[m], Kids(structure, tree.name[1]))
    /\ Len(ReportedNodes) = 1


(***************************************************************************)
(* Vocabulary of the validator's properties.                               *)
(***************************************************************************)
\* every call returned, and returned what the fetch's outcome calls for
ValidatorAnswers ==
    /\ pc \notin {"v_source", "v_dest"} /\ caller = "handler" /\ validations # << >>
          => Len(validations) = 2
    /\ \A i \in DOMAIN validations :
          LET f == validations[i].fetched
              r == validations[i].result
          IN  IF f.ok /\ f.mimeType = FolderMime
              THEN r = <<TRUE, f.name, f.driveId>>
              ELSE /\ r[1] = FALSE
                   /\ r[2] = (IF f.ok THEN NotAFolderMsg ELSE ErrorAccessingMsg)
                   /\ r[3] = None

\* the calls themselves touch nothing of the reader and the writer
ValidatorTouchesNothing ==
    pc \in {"v_source", "v_dest", "v_manual"}
        => /\ structure = << >> /\ stack = << >> /\ reads = << >>
           /\ folder_id_map = EmptyMap /\ calls = << >> /\ log = << >>

\* drive ids returned by the validations made so far
ValidatedDriveIds == {validations[i].result[3] : i \in DOMAIN validations} \ {None}

ScopedReads == {k \in DOMAIN reads : "driveId" \in reads[k].params}

(***************************************************************************)
(* C12.  validate_folder_id never raises: it returns (True, name,          *)
(* driveId-or-None) exactly when the metadata fetch succeeds and the item  *)
(* is folder-typed, and otherwise (False, message, None), both when the    *)
(* item is not a folder and when the fetch fails; it leaves no state       *)
(* behind that the reader or writer consumes: no remote read of the run    *)
(* depends on a drive id that a validation returned.                       *)
(***************************************************************************)
C12_ValidatorStateless ==
    /\ ValidatorAnswers
    /\ ValidatorTouchesNothing
    /\ ScopedReads # {} => source_drive_id \notin ValidatedDriveIds

(***************************************************************************)
(* C12, amended: the same answers; the function keeps no state of its own, *)
(* but the script stores the drive id returned for the source (line 391)   *)
(* and, unless a manual entry replaces it, hands it to the reader, whose   *)
(* listings on a shared drive are all scoped to that drive.                *)
(***************************************************************************)
C12_ValidatorFeedsReader ==
    /\ ValidatorAnswers
    /\ ValidatorTouchesNothing
    /\ Len(validations) = 2 /\ pc \notin {"v_manual"}
          => /\ source_drive_id \in {"manual", validations[1].result[3]}
             /\ dest_drive_id \in {"manual", validations[2].result[3]}
    /\ \A k \in DOMAIN reads :
          reads[k].op = "list"
              => ("driveId" \in reads[k].params <=> is_shared_drive /\ source_drive_id # None)

\* the source was validated as a folder of a shared drive, the destination
\* was refused as not being a folder, and the reader listed within that drive
C12_Witness ==
    /\ pc = "read_done"
    /\ Len(validations) = 2
    /\ validations[1].result = <<TRUE, tree.name[1], "d1">>
    /\ validations[2].result = <<FALSE, NotAFolderMsg, None>>
    /\ source_drive_id = "d1"
    /\ ScopedReads # {}


\* the last segment of p: posixpath.basename(p)
LastSegment(p) == SubSeq(p, LastSep(p) + 1, Len(p))

(***************************************************************************)
(* C13.  Structure well-formedness is an invariant of the reader: at every *)
(* point during get_folder_structure, for any source tree and any pattern  *)
(* of metadata or listing failures, every non-empty key of the Structure   *)
(* has its parent path (all but the last segment) present as a key, and    *)
(* every non-empty key is itself recorded as a child name under its parent *)
(* path.                                                                   *)
(***************************************************************************)
C13_StructureWellFormed ==
    \A k \in KeySet(structure) :
        k # EmptyPath
            => /\ HasKey(structure, ParentPath(k))
               /\ InSeq(LastSegment(k), Kids(structure, ParentPath(k)))


\* the positions in reads of the listings of folder x
ListingsOf(x) == {k \in DOMAIN reads : reads[k].op = "list" /\ reads[k].fid = x}

\* the listing at position k was the last attempt for its folder and failed
GivenUp(k) ==
    /\ ~reads[k].ok
    /\ reads[k].why # "param" \/ \E j \in ListingsOf(reads[k].fid) : j < k

\* at most two attempts per folder, the second right after the first, with the
\* legacy parameter in place of the preferred one
AtMostOneRetry ==
    \A x \in 1..tree.n :
        /\ Cardinality(ListingsOf(x)) <= 2
        /\ \A j \in ListingsOf(x) : \A k \in ListingsOf(x) :
              j < k => /\ k = j + 1
                       /\ ~reads[j].ok
                       /\ "includeItemsFromAllDrives" \in reads[j].params
                       /\ reads[k].params =
                              (reads[j].params \ {"includeItemsFromAllDrives"})
                                  \cup {"includeTeamDriveItems"}

\* a listing that is given up ends the call for that folder with a read error
GivenUpIsReadError ==
    \A k \in DOMAIN reads :
        reads[k].op = "list" /\ GivenUp(k)
            => /\ \A i \in DOMAIN stack : stack[i].fid # reads[k].fid
               /\ has_callback => \E i \in DOMAIN log :
                                     log[i].kind = "read_error" /\ log[i].fid = reads[k].fid

(***************************************************************************)
(* C14.  Listing retry protocol: for each node the child listing is        *)
(* attempted at most twice; a second attempt is made only when the first   *)
(* failed because the preferred cross-drive parameter was rejected, it is  *)
(* made with the legacy parameter in place of the preferred one, and if it *)
(* fails too, or the first failure had any other cause, the error becomes  *)
(* a per-node read error with no further retry.                            *)
(***************************************************************************)
C14_ListingRetry ==
    /\ AtMostOneRetry
    /\ \A x \in 1..tree.n : \A j \in ListingsOf(x) : \A k \in ListingsOf(x) :
          j < k => reads[j].why = "param"
    /\ GivenUpIsReadError


\* a step that issues a creation call finds the reader returned and reads
\* nothing; a step that reads finds no creation call issued
ReadsBeforeCreates ==
    /\ calls' # calls => /\ stack = << >>
                         /\ pc \notin {"idle", "reading", "read_done"}
                         /\ reads' = reads
                         /\ structure' = structure
    /\ reads' # reads => calls = << >> /\ calls' = calls

(***************************************************************************)
(* C15.  Phase ordering: within one replication run no folder-creation     *)
(* call is issued until the reader has finished (its last metadata or      *)
(* listing call has returned and the full Structure is built); reads and   *)
(* creates never interleave.                                               *)
(***************************************************************************)
C15_PhaseOrdering == [][ReadsBeforeCreates]_vars

\* a run that read three folders, one of them at the second listing attempt,
\* and then issued creation calls
C15_Witness ==
    /\ caller = "handler"
    /\ Len(calls) >= 2
    /\ Cardinality(Listed) = 3
    /\ \E k \in DOMAIN reads : reads[k].op = "list" /\ ~reads[k].ok


\* the run ended in the handler's except clause (lines 484-488): neither the
\* reader, nor the writer, nor the completion step will run
Aborted == pc = "failed"

(***************************************************************************)
(* C16.  Once a run has started, no failure of any single remote call is   *)
(* fatal to the run: for every choice of which metadata, listing or        *)
(* creation calls fail, including the fetch of the source root's name, the *)
(* run still executes the reader and then the writer over all remaining    *)
(* paths and reaches its completion step.  Hence no failure aborts it.     *)
(***************************************************************************)
C16_NoFailureIsFatal == caller = "handler" => ~Aborted


CreateErrorMsg(c) == [kind |-> "create_error", path |-> c.key, name |-> c.name]

\* what a step that issues a creation call does to the map and to the sink
CreationRecorded ==
    calls' # calls =>
        LET c == calls'[Len(calls')]
        IN  /\ c.new_path = JoinPath(c.key, c.name)
            /\ IF c.ok
               THEN /\ DOMAIN folder_id_map' = DOMAIN folder_id_map \cup {c.new_path}
                    /\ folder_id_map'[c.new_path] = c.id
                    /\ \A p \in DOMAIN folder_id_map \ {c.new_path} :
                          folder_id_map'[p] = folder_id_map[p]
                    /\ \A i \in (Len(log) + 1)..Len(log') : log'[i].kind # "create_error"
               ELSE /\ folder_id_map' = folder_id_map
                    /\ log' = IF has_callback THEN Append(log, CreateErrorMsg(c)) ELSE log

(***************************************************************************)
(* C17.  A failed creation call leaves FolderIdMap unchanged and is        *)
(* itemized: when the creation call for folder childName under path fails, *)
(* no entry for join(path, childName) is added and no existing entry is    *)
(* changed or removed, and (when a progress sink is supplied) exactly one  *)
(* error report naming that folder and path is sent to the sink; a         *)
(* successful call records exactly the one entry                           *)
(* FolderIdMap[join(path, childName)] = newId and leaves every other entry *)
(* as it was.                                                              *)
(***************************************************************************)
C17_FailedCreationItemized == [][CreationRecorded]_vars

\* a creation succeeded and was recorded, the next one failed and was reported
C17_Witness ==
    /\ caller = "handler"
    /\ Len(calls) = 2
    /\ calls[1].ok /\ ~calls[2].ok
    /\ calls[1].new_path \in DOMAIN folder_id_map
    /\ calls[2].new_path \notin DOMAIN folder_id_map
    /\ log[Len(log)] = CreateErrorMsg(calls[2])


\* the creation calls issued for the child name n under the key k are no more
\* than the entries n of Structure[k]
CallsWithinStructure ==
    \A i \in DOMAIN calls :
        LET k == calls[i].key
            n == calls[i].name
        IN  /\ HasKey(structure, k)
            /\ Cardinality({j \in DOMAIN calls :
                               calls[j].run = calls[i].run /\ calls[j].key = k /\ calls[j].name = n})
                  <= Cardinality({j \in DOMAIN Kids(structure, k) : Kids(structure, k)[j] = n})

ReaderReturns == (pc = "reading") ~> (pc = "read_done")
WriterReturns == (pc = "read_done") ~> (pc = "returned")

(***************************************************************************)
(* C18.  Termination: for every finite source tree and every pattern of    *)
(* per-call failures (with at most one retry per listing),                 *)
(* get_folder_structure eventually returns, and create_folder_structure    *)
(* eventually returns after issuing at most one creation call per          *)
(* (path, childName) entry of the Structure; a started run always proceeds *)
(* to completion.                                                          *)
(***************************************************************************)
C18_Termination ==
    /\ ReaderReturns
    /\ WriterReturns
    /\ []CallsWithinStructure
    /\ (pc = "idle") ~> (pc = "completed")


\* the writer took the branch of lines 216-218 for some path
WarnedMissingParent == \E i \in DOMAIN log : log[i].kind = "warning"

(***************************************************************************)
(* C19.  The writer's missing-parent warning branch is unreachable on the  *)
(* reader's output when nothing fails in the writer: for every Structure   *)
(* produced by get_folder_structure (with or without read failures) and    *)
(* the matching root name, if every creation call succeeds then            *)
(* create_folder_structure never finds a key whose parent path is absent   *)
(* from FolderIdMap, so no path is skipped with a warning.                 *)
(***************************************************************************)
C19_NoWarningWithoutFailure ==
    (caller = "handler" /\ \A i \in DOMAIN calls : calls[i].ok) => ~WarnedMissingParent

=============================================================================
